---- MODULE Spec2Model ----
(***************************************************************************)
(* Sliding-window histogram of cyber-g/tswHist.                            *)
(*                                                                         *)
(* Two entry points are modelled, step by step:                            *)
(*   "mx"   : tswHist_mx.c   (range-normalized gateway, tswHist_mx.h)      *)
(*   "mx_c" : tswHist_mx_c.c (pre-normalized gateway calling tswHist of    *)
(*            tswHist.h)                                                   *)
(*                                                                         *)
(* Real numbers (C doubles) are modelled as exact rationals <<p, q>> with  *)
(* q > 0; values of the index type (size_t / mwSize) are naturals reduced  *)
(* modulo 2^SizeBits.  Sequences are 1-based: C's a[i] is a[i + 1] here.   *)
(***************************************************************************)
EXTENDS Integers, Sequences, FiniteSets, TLC

(* ------------------------------ bounds -------------------------------- *)

\* longest input sequence
MaxLen == 5

\* largest number of bins tried
MaxBins == 3

\* largest stride tried
MaxStride == 2

\* width of the index type in the model (64 in a usual build)
SizeBits == 8

\* largest number of doubles one allocation can obtain
MemCap == 40

\* the binner specification: input length, and the grid k / BinDen of values
BinLen == 3

BinDen == 4

\* the accumulator specification: longest index sequence, largest count
AccLen == 3

AccMax == 1

(* ----------------------------- arithmetic ----------------------------- *)

SizeMod == 2 ^ SizeBits

\* unsigned arithmetic of the index type
USub(a, b) == (a - b + SizeMod) % SizeMod

UAdd(a, b) == (a + b) % SizeMod

\* INT_MIN, what cvttsd2si yields for a NaN
IntMin == (-2147483647) - 1

Rat(p, q) == <<p, q>>

RSub(a, b) == <<a[1] * b[2] - b[1] * a[2], a[2] * b[2]>>

RAdd(a, b) == <<a[1] * b[2] + b[1] * a[2], a[2] * b[2]>>

RMulInt(a, k) == <<a[1] * k, a[2]>>

\* a / b for b > 0
RDiv(a, b) == <<a[1] * b[2], a[2] * b[1]>>

RLess(a, b) == a[1] * b[2] < b[1] * a[2]

REq(a, b) == a[1] * b[2] = b[1] * a[2]

RLeq(a, b) == a[1] * b[2] <= b[1] * a[2]

\* floor() of math.h
Floor(a) == a[1] \div a[2]

Zeros(n) == [i \in 1..n |-> 0]

RECURSIVE SumSeq(_)
SumSeq(s) == IF s = <<>> THEN 0 ELSE s[1] + SumSeq(Tail(s))

(* ------------------------------- inputs ------------------------------- *)

\* the values an input element is drawn from: -1/2, 0, 1/2, 1
Values == {Rat(-1, 2), Rat(0, 1), Rat(1, 2), Rat(1, 1)}

Inputs == UNION {[1..n -> Values] : n \in 0..MaxLen}

Gateways == {"mx", "mx_c"}

\* what (size_t)x yields for a double x < 0 (undefined in C): the low bits of
\* the signed conversion (x86-64 cvttsd2si) or a saturated 0 (AArch64 fcvtzu)
ConvModes == {"wrap", "zero"}

\* what x / 0 yields in the index type (undefined in C): a trap (x86 div) or
\* the quotient 0 (AArch64 udiv)
DivModes == {"trap", "zero"}

\* what (int)floor(NaN) yields (undefined in C): INT_MIN (x86) or 0 (AArch64)
NanToInt == {IntMin, 0}

(* -------------------------------- state ------------------------------- *)

VARIABLES
    variant,        \* the gateway called
    input,          \* prhs[0]: the input vector
    n_bins,         \* prhs[1]
    win_len,        \* prhs[2]
    stride,         \* prhs[3]
    pc,             \* position in the gateway
    err,            \* identifier given to mexErrMsgIdAndTxt, or "none"
    allocated,      \* the output buffers created so far
    num_windows,
    loci,           \* strided_windows_loci
    edges,
    input_int,
    bufferHist,
    histMat,
    offsets,
    conv,           \* the build's conversion of a negative double to size_t
    w,              \* window index of the sliding loop
    j,              \* index of the pop / push loop
    zerodiv,        \* a division by (max_val - min_val) = 0 was executed
    acc0,           \* history: the accumulator before pushHist / popHist
    touched,        \* history: the cells of hist_vec written by them
    popped,         \* history: the positions popped in the current transition
    pushed,         \* history: the positions pushed in the current transition
    skipped,        \* history: a guard idx < input_len was false
    written,        \* history: the columns stored, with what was stored
    eng,            \* the other header's tswHistSlidingWindow, same arguments
    twin            \* the other gateway, called with the same arguments

vars == <<variant, input, n_bins, win_len, stride, pc, err, allocated,
          num_windows, loci, edges, input_int, bufferHist, histMat, offsets,
          conv, w, j, zerodiv, acc0, touched, popped, pushed, skipped, written,
          eng, twin>>

twinAux == <<eng, twin>>

accAux == <<acc0, touched>>

slideAux == <<popped, pushed, skipped, written>>

args == <<variant, input, n_bins, win_len, stride>>

input_len == Len(input)

Init ==
    /\ variant \in Gateways
    /\ input \in Inputs
    /\ n_bins \in 2..MaxBins
    /\ win_len \in 0..(MaxLen + 1)
    /\ stride \in 0..MaxStride
    /\ pc = "validate"
    /\ err = "none"
    /\ allocated = {}
    /\ num_windows = 0
    /\ loci = <<>>
    /\ edges = <<>>
    /\ input_int = <<>>
    /\ bufferHist = <<>>
    /\ histMat = <<>>
    /\ offsets = <<>>
    /\ conv = "unused"
    /\ w = 0
    /\ j = 0
    /\ zerodiv = FALSE
    /\ acc0 = <<>>
    /\ touched = {}
    /\ popped = <<>>
    /\ pushed = <<>>
    /\ skipped = FALSE
    /\ written = <<>>
    /\ eng = [hist |-> <<>>, mat |-> <<>>]
    /\ twin = [ok |-> TRUE, loci |-> <<>>, edges |-> <<>>, input_int |-> <<>>,
               hist |-> <<>>, mat |-> <<>>]

\* the values of the binner specification: k / BinDen from -1/2 to 3/2
BinValues == {Rat(k, BinDen) : k \in (-(BinDen \div 2))..(BinDen + BinDen \div 2)}

\* the same program, called on inputs of a finer grid of values
InitBinner ==
    /\ variant \in Gateways
    /\ input \in [1..BinLen -> BinValues]
    /\ n_bins \in 3..(MaxBins + 1)
    /\ win_len = BinLen - 1
    /\ stride = 1
    /\ pc = "validate"
    /\ err = "none"
    /\ allocated = {}
    /\ num_windows = 0
    /\ loci = <<>>
    /\ edges = <<>>
    /\ input_int = <<>>
    /\ bufferHist = <<>>
    /\ histMat = <<>>
    /\ offsets = <<>>
    /\ conv = "unused"
    /\ w = 0
    /\ j = 0
    /\ zerodiv = FALSE
    /\ acc0 = <<>>
    /\ touched = {}
    /\ popped = <<>>
    /\ pushed = <<>>
    /\ skipped = FALSE
    /\ written = <<>>
    /\ eng = [hist |-> <<>>, mat |-> <<>>]
    /\ twin = [ok |-> TRUE, loci |-> <<>>, edges |-> <<>>, input_int |-> <<>>,
               hist |-> <<>>, mat |-> <<>>]

(* ------------------------------ validation ---------------------------- *)

\* Validate with the stride test off by one: stride == win_len passes
ValidateOffByOne ==
    /\ pc = "validate"
    /\ IF n_bins <= 2
       THEN pc' = "rejected" /\ err' = "badBins"
       ELSE IF stride > win_len
            THEN pc' = "rejected" /\ err' = "strideWin"
            ELSE pc' = "numwin" /\ err' = err
    /\ UNCHANGED <<args, twinAux, accAux, slideAux, allocated, num_windows, loci, edges, input_int,
                   bufferHist, histMat, offsets, conv, w, j, zerodiv>>

Validate ==
    /\ pc = "validate"
    /\ IF n_bins <= 2
       THEN pc' = "rejected" /\ err' = "badBins"
       ELSE IF stride >= win_len
            THEN pc' = "rejected" /\ err' = "strideWin"
            ELSE pc' = "numwin" /\ err' = err
    /\ UNCHANGED <<args, twinAux, accAux, slideAux, allocated, num_windows, loci, edges, input_int,
                   bufferHist, histMat, offsets, conv, w, j, zerodiv>>

\* NumWindows without the + 1
NumWindowsNoPlusOne(len, wl, st) == USub(len, wl) \div st

\* (input_len - win_len) / stride + 1 in the index type, stride > 0
NumWindows(len, wl, st) == UAdd(USub(len, wl) \div st, 1)

ComputeNumWindows ==
    /\ pc = "numwin"
    /\ IF stride = 0
       THEN \E d \in DivModes :
               IF d = "trap"
               THEN pc' = "fpe" /\ num_windows' = num_windows
               ELSE pc' = "alloc" /\ num_windows' = UAdd(0, 1)
       ELSE pc' = "alloc" /\ num_windows' = NumWindows(input_len, win_len, stride)
    /\ UNCHANGED <<args, twinAux, accAux, slideAux, err, allocated, loci, edges, input_int, bufferHist,
                   histMat, offsets, conv, w, j, zerodiv>>

(* ------------------------ accumulator (pushHist, popHist) ------------- *)

\* tswHist.h: if (bin >= 0 && bin < n_bins), bin an int and n_bins a size_t
InRange(bin, n) == bin >= 0 /\ bin % SizeMod < n

\* InRangeMx with the upper test off by one
InRangeMxInclusive(bin, n) == bin >= 0 /\ bin <= n

\* tswHist_mx.h: if (bin >= 0 && bin < (int)n_bins)
InRangeMx(bin, n) == bin >= 0 /\ bin < n

\* one iteration of pushHist's loop: hist_vec[bin] += 1 when bin is in range
PushOne(h, bin, n) ==
    IF InRange(bin, n) THEN [h EXCEPT ![bin + 1] = @ + 1] ELSE h

\* the same of tswHist_mx.h
PushOneMx(h, bin, n) ==
    IF InRangeMx(bin, n) THEN [h EXCEPT ![bin + 1] = @ + 1] ELSE h

\* PopOne that never decrements
PopOneNoop(h, bin, n) == h

\* one iteration of popHist's loop: hist_vec[bin] -= 1 when bin is in range
PopOne(h, bin, n) ==
    IF InRange(bin, n) THEN [h EXCEPT ![bin + 1] = @ - 1] ELSE h

\* PopOneMx that leaves bin 0 alone
PopOneMxSkipsZero(h, bin, n) ==
    IF bin > 0 /\ bin < n THEN [h EXCEPT ![bin + 1] = @ - 1] ELSE h

\* the same of tswHist_mx.h
PopOneMx(h, bin, n) ==
    IF InRangeMx(bin, n) THEN [h EXCEPT ![bin + 1] = @ - 1] ELSE h

\* pushHist(hist_vec, input_int, len, n_bins), len <= Len(s)
RECURSIVE pushHist(_, _, _, _)
pushHist(h, s, len, n) ==
    IF len = 0 THEN h
    ELSE PushOne(pushHist(h, s, len - 1, n), s[len], n)

\* popHist(hist_vec, input_int, len, n_bins), len <= Len(s)
RECURSIVE popHist(_, _, _, _)
popHist(h, s, len, n) ==
    IF len = 0 THEN h
    ELSE PopOne(popHist(h, s, len - 1, n), s[len], n)

\* pushHist of tswHist_mx.h
RECURSIVE pushHistMx(_, _, _, _)
pushHistMx(h, s, len, n) ==
    IF len = 0 THEN h
    ELSE PushOneMx(pushHistMx(h, s, len - 1, n), s[len], n)

\* popHist of tswHist_mx.h
RECURSIVE popHistMx(_, _, _, _)
popHistMx(h, s, len, n) ==
    IF len = 0 THEN h
    ELSE PopOneMx(popHistMx(h, s, len - 1, n), s[len], n)

\* the cells hist_vec[bin] that pushHist / popHist write for the indices s
Written(s, len, n) == {s[i] : i \in {k \in 1..len : InRange(s[k], n)}}

WrittenMx(s, len, n) == {s[i] : i \in {k \in 1..len : InRangeMx(s[k], n)}}

(* -------------------------------- binner ------------------------------ *)

\* BinClamp without the patch for the maximum
BinClampNone(bin, n) == bin

\* if (bin == (int)n_bins) bin = n_bins - 1
BinClamp(bin, n) == IF bin = n THEN n - 1 ELSE bin

\* BinPre that saturates the index into 0 .. n_bins - 1
BinPreSaturating(v, n) ==
    LET bin == Floor(RMulInt(v, n))
    IN IF bin < 0 THEN 0 ELSE IF bin >= n THEN n - 1 ELSE bin

\* pre-normalized: (int)floor(input_norm[i] * n_bins), then the patch
BinPre(v, n) == BinClamp(Floor(RMulInt(v, n)), n)

\* BinRange that forgets to subtract min_val
BinRangeNoShift(v, mn, mx, n) ==
    BinClamp(Floor(RMulInt(RDiv(v, RSub(mx, mn)), n)), n)

\* range-normalized, max_val > min_val:
\* norm = (input[i] - min_val) / (max_val - min_val); (int)floor(norm * n_bins)
BinRange(v, mn, mx, n) ==
    BinClamp(Floor(RMulInt(RDiv(RSub(v, mn), RSub(mx, mn)), n)), n)

RECURSIVE MinVal(_, _)
MinVal(s, k) ==
    IF k = 1 THEN s[1]
    ELSE LET m == MinVal(s, k - 1) IN IF RLess(s[k], m) THEN s[k] ELSE m

RECURSIVE MaxVal(_, _)
MaxVal(s, k) ==
    IF k = 1 THEN s[1]
    ELSE LET m == MaxVal(s, k - 1) IN IF RLess(m, s[k]) THEN s[k] ELSE m

min_val == MinVal(input, input_len)

max_val == MaxVal(input, input_len)

\* edges[i] of tswHist_mx: min_val + (max_val - min_val) * ((double)i / n_bins)
EdgeRange(i, mn, mx, n) == RAdd(mn, RDiv(RMulInt(RSub(mx, mn), i), Rat(n, 1)))

\* edges[i] of tswHist: 1.0 * ((double)i / n_bins)
EdgePre(i, n) == Rat(i, n)

(* ------------------------- allocation and loci ------------------------ *)

\* LocusAt 0-based
LocusAtZeroBased(i, st) == (i * st) % SizeMod

\* tswHist: strided_windows_loci[i] = (double)(i * stride + 1)
LocusAt(i, st) == UAdd(i * st, 1)

\* LocusAtMx 0-based
LocusAtMxZeroBased(i, st) == (i * st) % SizeMod

\* tswHist_mx: strided_windows_loci[i] = 1 + i * stride
LocusAtMx(i, st) == UAdd(1, i * st)

\* the gateway that was not called
Other == IF variant = "mx" THEN "mx_c" ELSE "mx"

\* the gateway's first mxCreateDoubleMatrix calls fit in memory
AllocFits ==
    IF variant = "mx"
    THEN num_windows <= MemCap
    ELSE /\ (n_bins * num_windows) % SizeMod <= MemCap
         /\ num_windows <= MemCap
         /\ n_bins + 1 <= MemCap

AllocOutputs ==
    /\ pc = "alloc"
    /\ IF ~AllocFits
       THEN /\ pc' = "oom"
            /\ err' = "outOfMemory"
            /\ UNCHANGED <<allocated, loci, histMat, edges>>
       ELSE /\ pc' = "loci"
            /\ err' = err
            /\ loci' = Zeros(num_windows)
            /\ IF variant = "mx"
               THEN /\ allocated' = {"loci"}
                    /\ UNCHANGED <<histMat, edges>>
               ELSE /\ allocated' = {"histMat", "loci", "edges"}
                    /\ histMat' = Zeros(n_bins * num_windows)
                    /\ edges' = [i \in 1..(n_bins + 1) |-> Rat(0, 1)]
    /\ UNCHANGED <<args, twinAux, accAux, slideAux, num_windows, input_int, bufferHist, offsets, conv,
                   w, j, zerodiv>>

FillLoci ==
    /\ pc = "loci"
    /\ loci' = [i \in 1..num_windows |->
                    IF variant = "mx" THEN LocusAtMx(i - 1, stride)
                    ELSE LocusAt(i - 1, stride)]
    /\ pc' = "edges"
    /\ twin' = [twin EXCEPT !.loci =
                    [i \in 1..num_windows |->
                        IF Other = "mx" THEN LocusAtMx(i - 1, stride)
                        ELSE LocusAt(i - 1, stride)]]
    /\ UNCHANGED <<args, eng, accAux, slideAux, err, allocated, num_windows, edges, input_int,
                   bufferHist, histMat, offsets, conv, w, j, zerodiv>>

ComputeEdges ==
    /\ pc = "edges"
    /\ IF variant = "mx"
       THEN IF input_len = 0
            THEN \* min_val = input[0] reads past the empty input
                 pc' = "oob" /\ UNCHANGED <<edges, allocated>>
            ELSE /\ allocated' = allocated \cup {"edges"}
                 /\ edges' = [i \in 1..(n_bins + 1) |->
                                 EdgeRange(i - 1, min_val, max_val, n_bins)]
                 /\ pc' = "bin"
       ELSE /\ edges' = [i \in 1..(n_bins + 1) |-> EdgePre(i - 1, n_bins)]
            /\ pc' = "bin"
            /\ UNCHANGED allocated
    /\ twin' = IF Other = "mx"
               THEN IF input_len = 0
                    THEN [twin EXCEPT !.ok = FALSE]
                    ELSE [twin EXCEPT !.edges =
                             [i \in 1..(n_bins + 1) |->
                                 EdgeRange(i - 1, min_val, max_val, n_bins)]]
               ELSE [twin EXCEPT !.edges =
                        [i \in 1..(n_bins + 1) |-> EdgePre(i - 1, n_bins)]]
    /\ UNCHANGED <<args, eng, accAux, slideAux, err, num_windows, loci, input_int, bufferHist,
                   histMat, offsets, conv, w, j, zerodiv>>

BinInput ==
    /\ pc = "bin"
    /\ IF variant = "mx"
       THEN IF REq(max_val, min_val)
            THEN \* 0.0 / 0.0 is NaN for every element
                 /\ \E r \in NanToInt :
                       input_int' = [i \in 1..input_len |-> BinClamp(r, n_bins)]
                 /\ zerodiv' = TRUE
            ELSE /\ input_int' = [i \in 1..input_len |->
                                     BinRange(input[i], min_val, max_val, n_bins)]
                 /\ zerodiv' = zerodiv
       ELSE /\ input_int' = [i \in 1..input_len |-> BinPre(input[i], n_bins)]
            /\ zerodiv' = zerodiv
    /\ pc' = "seed"
    /\ twin' = IF ~twin.ok THEN twin
               ELSE IF Other = "mx"
                    THEN IF REq(max_val, min_val)
                         THEN [twin EXCEPT !.ok = FALSE]
                         ELSE [twin EXCEPT !.input_int =
                                  [i \in 1..input_len |->
                                      BinRange(input[i], min_val, max_val, n_bins)]]
                    ELSE [twin EXCEPT !.input_int =
                             [i \in 1..input_len |-> BinPre(input[i], n_bins)]]
    /\ UNCHANGED <<args, eng, accAux, slideAux, err, allocated, num_windows, loci, edges, bufferHist,
                   histMat, offsets, conv, w, j>>

(* ----------------------------- first window --------------------------- *)

\* StoreColumn that always writes the first column
StoreColumnFirst(m, col, h, n) ==
    [i \in 1..Len(m) |-> IF i <= n THEN h[i] ELSE m[i]]

\* histMat[b + col * n_bins] = bufferHist[b] for every b
StoreColumn(m, col, h, n) ==
    [i \in 1..Len(m) |->
        IF i > col * n /\ i <= col * n + n THEN h[i - col * n] ELSE m[i]]

SeedFirstWindow ==
    /\ pc = "seed"
    /\ IF variant = "mx" /\ (n_bins * num_windows) % SizeMod > MemCap
       THEN /\ pc' = "oom"
            /\ err' = "outOfMemory"
            /\ UNCHANGED <<allocated, bufferHist, histMat>>
       ELSE /\ err' = err
            /\ allocated' = allocated \cup {"histMat"}
            /\ IF win_len > input_len
               THEN \* pushHist reads input_int[input_len .. win_len - 1]
                    /\ pc' = "oob"
                    /\ histMat' = IF variant = "mx"
                                  THEN Zeros(n_bins * num_windows) ELSE histMat
                    /\ UNCHANGED bufferHist
               ELSE /\ pc' = "offsets"
                    /\ bufferHist' =
                           IF variant = "mx"
                           THEN pushHistMx(Zeros(n_bins), input_int, win_len, n_bins)
                           ELSE pushHist(Zeros(n_bins), input_int, win_len, n_bins)
                    /\ histMat' = StoreColumn(
                           IF variant = "mx"
                           THEN Zeros(n_bins * num_windows) ELSE histMat,
                           0, bufferHist', n_bins)
    /\ written' = IF pc' = "offsets"
                  THEN <<[col |-> 0, hist |-> bufferHist']>> ELSE written
    /\ twin' = IF twin.ok /\ pc' = "offsets"
               THEN LET h == IF Other = "mx"
                             THEN pushHistMx(Zeros(n_bins), twin.input_int,
                                             win_len, n_bins)
                             ELSE pushHist(Zeros(n_bins), twin.input_int,
                                           win_len, n_bins)
                    IN [twin EXCEPT
                           !.hist = h,
                           !.mat = StoreColumn(Zeros(n_bins * num_windows),
                                               0, h, n_bins)]
               ELSE twin
    /\ UNCHANGED <<args, eng, accAux, popped, pushed, skipped, num_windows,
                   loci, edges, input_int, offsets, conv, w, j, zerodiv>>

\* offsets[i] = -(double)(stride - 1 - i)
OffsetAt(i, st) == -(USub(USub(st, 1), i))

PrepareOffsets ==
    /\ pc = "offsets"
    /\ offsets' = [i \in 1..stride |-> OffsetAt(i - 1, stride)]
    /\ pc' = "call"
    /\ UNCHANGED <<args, twinAux, accAux, slideAux, err, allocated, num_windows, loci, edges, input_int,
                   bufferHist, histMat, conv, w, j, zerodiv>>

(* ----------------------------- sliding loop --------------------------- *)

\* (size_t)x for a double x holding an integer
ToSize(x, mode) ==
    IF x >= 0 THEN x % SizeMod
    ELSE IF mode = "wrap" THEN x % SizeMod ELSE 0

\* base_pop = (size_t)strided_windows_loci[w] - 2
BasePop(locus) == USub(ToSize(locus, conv), 2)

\* base_push = (size_t)strided_windows_loci[w] + win_len - 2
BasePush(locus, wl) == USub(UAdd(ToSize(locus, conv), wl), 2)

\* idx = base + (size_t)offsets[j]
Idx(base, off) == UAdd(base, ToSize(off, conv))

\* the same three of tswHist_mx.h, in mwSize
BasePopMx(locus) == USub(ToSize(locus, conv), 2)

\* BasePushMx that takes only 1 away
BasePushMxOffByOne(locus, wl) == USub(UAdd(ToSize(locus, conv), wl), 1)

BasePushMx(locus, wl) == USub(UAdd(ToSize(locus, conv), wl), 2)

IdxMx(base, off) == UAdd(base, ToSize(off, conv))

\* the position popped / pushed at step jj of the transition into window ww
PopIdx(ww, jj) ==
    IF variant = "mx" THEN IdxMx(BasePopMx(loci[ww + 1]), offsets[jj + 1])
    ELSE Idx(BasePop(loci[ww + 1]), offsets[jj + 1])

PushIdx(ww, jj) ==
    IF variant = "mx"
    THEN IdxMx(BasePushMx(loci[ww + 1], win_len), offsets[jj + 1])
    ELSE Idx(BasePush(loci[ww + 1], win_len), offsets[jj + 1])

\* the same positions as header g computes them from the loci lc
PopIdxOf(g, lc, ww, jj) ==
    IF g = "mx" THEN IdxMx(BasePopMx(lc[ww + 1]), offsets[jj + 1])
    ELSE Idx(BasePop(lc[ww + 1]), offsets[jj + 1])

PushIdxOf(g, lc, ww, jj) ==
    IF g = "mx" THEN IdxMx(BasePushMx(lc[ww + 1], win_len), offsets[jj + 1])
    ELSE Idx(BasePush(lc[ww + 1], win_len), offsets[jj + 1])

\* one iteration of the pop loop of header g on the accumulator st.hist
SlidePop(g, st, lc, ints) ==
    LET idx == PopIdxOf(g, lc, w, j)
    IN [st EXCEPT !.hist =
           IF idx < input_len
           THEN IF g = "mx" THEN PopOneMx(@, ints[idx + 1], n_bins)
                ELSE PopOne(@, ints[idx + 1], n_bins)
           ELSE @]

\* one iteration of the push loop of header g on the accumulator st.hist
SlidePush(g, st, lc, ints) ==
    LET idx == PushIdxOf(g, lc, w, j)
    IN [st EXCEPT !.hist =
           IF idx < input_len
           THEN IF g = "mx" THEN PushOneMx(@, ints[idx + 1], n_bins)
                ELSE PushOne(@, ints[idx + 1], n_bins)
           ELSE @]

\* the store loop on the matrix st.mat
SlideStore(st) == [st EXCEPT !.mat = StoreColumn(@, w, st.hist, n_bins)]

\* the call of tswHistSlidingWindow: w = 1
EnterSlide ==
    /\ pc = "call"
    /\ w' = 1
    /\ j' = 0
    /\ IF 1 < num_windows
       THEN /\ pc' = "pop"
            /\ IF \E i \in 1..Len(offsets) : offsets[i] < 0
               THEN conv' \in ConvModes
               ELSE conv' = conv
       ELSE pc' = "free" /\ conv' = conv
    /\ eng' = [hist |-> bufferHist, mat |-> histMat]
    /\ UNCHANGED <<args, twin, accAux, slideAux, err, allocated, num_windows, loci, edges, input_int,
                   bufferHist, histMat, offsets, zerodiv>>

Pop ==
    /\ pc = "pop"
    /\ LET idx == PopIdx(w, j)
       IN bufferHist' = IF idx < input_len
                        THEN IF variant = "mx"
                             THEN PopOneMx(bufferHist, input_int[idx + 1], n_bins)
                             ELSE PopOne(bufferHist, input_int[idx + 1], n_bins)
                        ELSE bufferHist
    /\ popped' = IF PopIdx(w, j) < input_len
                 THEN Append(IF j = 0 THEN <<>> ELSE popped, PopIdx(w, j))
                 ELSE IF j = 0 THEN <<>> ELSE popped
    /\ pushed' = IF j = 0 THEN <<>> ELSE pushed
    /\ skipped' = (skipped \/ ~(PopIdx(w, j) < input_len))
    /\ IF j + 1 < stride
       THEN j' = j + 1 /\ pc' = pc
       ELSE j' = 0 /\ pc' = "push"
    /\ eng' = SlidePop(Other, eng, loci, input_int)
    /\ twin' = IF twin.ok
               THEN SlidePop(Other, twin, twin.loci, twin.input_int) ELSE twin
    /\ UNCHANGED <<args, accAux, written, err, allocated, num_windows, loci,
                   edges, input_int, histMat, offsets, conv, w, zerodiv>>

Push ==
    /\ pc = "push"
    /\ LET idx == PushIdx(w, j)
       IN bufferHist' = IF idx < input_len
                        THEN IF variant = "mx"
                             THEN PushOneMx(bufferHist, input_int[idx + 1], n_bins)
                             ELSE PushOne(bufferHist, input_int[idx + 1], n_bins)
                        ELSE bufferHist
    /\ pushed' = IF PushIdx(w, j) < input_len
                 THEN Append(pushed, PushIdx(w, j)) ELSE pushed
    /\ skipped' = (skipped \/ ~(PushIdx(w, j) < input_len))
    /\ IF j + 1 < stride
       THEN j' = j + 1 /\ pc' = pc
       ELSE j' = 0 /\ pc' = "store"
    /\ eng' = SlidePush(Other, eng, loci, input_int)
    /\ twin' = IF twin.ok
               THEN SlidePush(Other, twin, twin.loci, twin.input_int) ELSE twin
    /\ UNCHANGED <<args, accAux, popped, written, err, allocated, num_windows,
                   loci, edges, input_int, histMat, offsets, conv, w, zerodiv>>

Store ==
    /\ pc = "store"
    /\ histMat' = StoreColumn(histMat, w, bufferHist, n_bins)
    /\ w' = w + 1
    /\ pc' = IF w + 1 < num_windows THEN "pop" ELSE "free"
    /\ written' = Append(written, [col |-> w, hist |-> bufferHist])
    /\ eng' = SlideStore(eng)
    /\ twin' = IF twin.ok THEN SlideStore(twin) ELSE twin
    /\ UNCHANGED <<args, accAux, popped, pushed, skipped, err, allocated,
                   num_windows, loci, edges, input_int, bufferHist, offsets,
                   conv, j, zerodiv>>

\* free / mxFree of input_int, bufferHist and offsets
Free ==
    /\ pc = "free"
    /\ pc' = "done"
    /\ input_int' = <<>>
    /\ bufferHist' = <<>>
    /\ offsets' = <<>>
    /\ UNCHANGED <<args, twinAux, accAux, slideAux, err, allocated, num_windows, loci, edges, histMat,
                   conv, w, j, zerodiv>>

Next ==
    \/ Validate
    \/ ComputeNumWindows
    \/ AllocOutputs
    \/ FillLoci
    \/ ComputeEdges
    \/ BinInput
    \/ SeedFirstWindow
    \/ PrepareOffsets
    \/ EnterSlide
    \/ Pop
    \/ Push
    \/ Store
    \/ Free

Spec == Init /\ [][Next]_vars

(* ------------------- pushHist, popHist and hist_int_mx ---------------- *)

\* any accumulator and any sequence of indices, in range or not; the variant
\* names the header whose pushHist / popHist is called
InitAcc ==
    /\ variant \in Gateways
    /\ n_bins \in 3..MaxBins
    /\ input_int \in UNION {[1..k -> (-1)..(n_bins + 1)] : k \in 0..AccLen}
    /\ bufferHist \in [1..n_bins -> (-1)..AccMax]
    /\ acc0 = bufferHist
    /\ touched = {}
    /\ popped = <<>>
    /\ pushed = <<>>
    /\ skipped = FALSE
    /\ written = <<>>
    /\ eng = [hist |-> <<>>, mat |-> <<>>]
    /\ twin = [ok |-> TRUE, loci |-> <<>>, edges |-> <<>>, input_int |-> <<>>,
               hist |-> <<>>, mat |-> <<>>]
    /\ pc = "acc"
    /\ input = <<>>
    /\ win_len = 0
    /\ stride = 0
    /\ err = "none"
    /\ allocated = {}
    /\ num_windows = 0
    /\ loci = <<>>
    /\ edges = <<>>
    /\ histMat = <<>>
    /\ offsets = <<>>
    /\ conv = "unused"
    /\ w = 0
    /\ j = 0
    /\ zerodiv = FALSE

accFrame == <<args, err, allocated, num_windows, loci, edges, input_int,
              histMat, offsets, conv, w, j, zerodiv, acc0, slideAux, twinAux>>

\* pushHist(hist_vec, input_int, len, n_bins) over the whole sequence
AccPush ==
    /\ pc = "acc"
    /\ pc' = "acc_pushed"
    /\ IF variant = "mx"
       THEN /\ bufferHist' = pushHistMx(bufferHist, input_int,
                                        Len(input_int), n_bins)
            /\ touched' = touched \cup WrittenMx(input_int, Len(input_int), n_bins)
       ELSE /\ bufferHist' = pushHist(bufferHist, input_int,
                                      Len(input_int), n_bins)
            /\ touched' = touched \cup Written(input_int, Len(input_int), n_bins)
    /\ UNCHANGED accFrame

\* popHist(hist_vec, input_int, len, n_bins) over the same sequence
AccPop ==
    /\ pc = "acc_pushed"
    /\ pc' = "acc_popped"
    /\ IF variant = "mx"
       THEN /\ bufferHist' = popHistMx(bufferHist, input_int,
                                       Len(input_int), n_bins)
            /\ touched' = touched \cup WrittenMx(input_int, Len(input_int), n_bins)
       ELSE /\ bufferHist' = popHist(bufferHist, input_int,
                                     Len(input_int), n_bins)
            /\ touched' = touched \cup Written(input_int, Len(input_int), n_bins)
    /\ UNCHANGED accFrame

\* hist_int_mx(input_int, n_bins): pushHist of tswHist_mx.h on a zeroed plhs[0]
HistInt ==
    /\ pc = "acc"
    /\ pc' = "hist_int"
    /\ bufferHist' = pushHistMx(Zeros(n_bins), input_int, Len(input_int), n_bins)
    /\ touched' = touched \cup WrittenMx(input_int, Len(input_int), n_bins)
    /\ UNCHANGED accFrame

NextAcc == AccPush \/ AccPop \/ HistInt

AccSpec == InitAcc /\ [][NextAcc]_vars

BinnerSpec == InitBinner /\ [][Next]_vars

(* ------------------------ notions the claims use ---------------------- *)

\* N >= 1, n_bins > 2, 0 < stride < win_len <= N
ValidConfig ==
    /\ input_len >= 1
    /\ n_bins > 2
    /\ 0 < stride
    /\ stride < win_len
    /\ win_len <= input_len

\* column col of histMat
Column(col) == [b \in 1..n_bins |-> histMat[col * n_bins + b]]

\* the histogram of window col counted from scratch: for each bin, the number
\* of positions col*stride .. col*stride + win_len - 1 whose value has that bin
ScratchHist(col) ==
    [b \in 1..n_bins |->
        Cardinality({p \in (col * stride)..(col * stride + win_len - 1) :
                        BinPre(input[p + 1], n_bins) = b - 1})]

\* the positions of the gateway at which input_int holds the binned sequence
BinnedPcs == {"seed", "offsets", "call", "pop", "push", "store", "free"}

\* the positions of the gateway after strided_windows_loci is filled
LociPcs == BinnedPcs \cup {"edges", "bin", "done", "oob"}

AllBinnedInRange == \A i \in 1..Len(input_int) : input_int[i] \in 0..(n_bins - 1)

InUnit(v) == RLeq(Rat(0, 1), v) /\ RLeq(v, Rat(1, 1))

(* -------------------------------- claims ------------------------------ *)

\* C1 (as claimed): for every valid configuration, once tswHist has run, every
\* column w of histMat equals the histogram counted from scratch over the
\* positions w*stride .. w*stride + win_len - 1 of the binned input.  Stated
\* here for the inputs within [0, 1] only, where no value is ever dropped.
C1_Equivalence ==
    (/\ pc = "done" /\ variant = "mx_c" /\ ValidConfig
     /\ \A i \in 1..input_len : InUnit(input[i])) =>
        \A col \in 0..(num_windows - 1) : Column(col) = ScratchHist(col)

\* What remains of C1 in the code: the equivalence holds on every run that
\* converted no negative offset, or converted it by wrapping.
EquivalenceUnlessSaturating ==
    (pc = "done" /\ variant = "mx_c" /\ ValidConfig /\ conv # "zero") =>
        \A col \in 0..(num_windows - 1) : Column(col) = ScratchHist(col)

\* C2: for a valid configuration whose binned values all lie in [0, n_bins),
\* every column of histMat sums to win_len when the sliding loop has ended.
C2_ColumnSum ==
    (pc = "free" /\ ValidConfig /\ AllBinnedInRange) =>
        \A col \in 0..(num_windows - 1) : SumSeq(Column(col)) = win_len

C2_Witness ==
    /\ pc = "free"
    /\ ValidConfig
    /\ AllBinnedInRange
    /\ num_windows >= 2
    /\ stride = 2
    /\ \E b \in 1..n_bins : Column(1)[b] # Column(0)[b]

\* C3 (as claimed): a call with win_len > N never gets past its argument
\* checks: it allocates nothing and computes no num_windows from N - win_len.
C3_WinLenRejected ==
    (win_len > input_len /\ stride > 0) =>
        /\ pc \in {"validate", "numwin", "rejected"}
        /\ allocated = {}

\* C4: a call with stride >= win_len ends rejected with an error, in both
\* gateways, with no buffer allocated and nothing binned or counted.
C4_StrideRejected ==
    (stride >= win_len /\ pc # "validate") =>
        /\ pc = "rejected"
        /\ err \in {"badBins", "strideWin"}
        /\ (n_bins > 2 => err = "strideWin")
        /\ allocated = {}
        /\ num_windows = 0
        /\ loci = <<>> /\ edges = <<>> /\ histMat = <<>>
        /\ input_int = <<>> /\ bufferHist = <<>>

C4_Witness ==
    /\ pc = "rejected"
    /\ err = "strideWin"
    /\ stride = win_len
    /\ win_len > 0
    /\ input_len >= win_len

\* C5 (as claimed): tswHist_mx never divides by max_val - min_val = 0 and
\* produces no histogram for an input whose maximum equals its minimum.
\* Stated here for the calls whose other arguments are valid.
C5_DegenerateRejected ==
    (variant = "mx" /\ ValidConfig /\ REq(max_val, min_val)) =>
        /\ ~zerodiv
        /\ histMat = <<>>

\* C6: for 0 < stride < win_len <= N, num_windows is floor((N - win_len) /
\* stride) + 1; the last window fits in the input and one more would not.
C6_NumWindows ==
    (ValidConfig /\ pc \notin {"validate", "numwin", "rejected"}) =>
        /\ num_windows = (input_len - win_len) \div stride + 1
        /\ (num_windows - 1) * stride + win_len <= input_len
        /\ num_windows * stride + win_len > input_len

C6_Witness ==
    /\ pc = "done"
    /\ ValidConfig
    /\ (input_len - win_len) % stride # 0
    /\ input_len > win_len
    /\ num_windows = 1

\* C7: in both entry points the loci are num_windows values, the locus of
\* window w being the 1-based w*stride + 1: an arithmetic progression of step
\* stride.
C7_Loci ==
    (ValidConfig /\ pc \in LociPcs) =>
        /\ Len(loci) = num_windows
        /\ \A col \in 0..(num_windows - 1) : loci[col + 1] = col * stride + 1
        /\ \A col \in 1..(num_windows - 1) : loci[col + 1] - loci[col] = stride

C7_Witness ==
    /\ pc = "done"
    /\ variant = "mx_c"
    /\ ValidConfig
    /\ Len(loci) >= 2
    /\ stride = 2

\* the normalized value of v in the range-normalized variant, max_val > min_val
NormOf(v) == RDiv(RSub(v, min_val), RSub(max_val, min_val))

\* C8: a normalized value of exactly 1 (the value 1 pre-normalized, the
\* maximum of the input range-normalized) gets bin n_bins - 1; a normalized
\* value v in [0, 1) gets floor(v * n_bins).
C8_TopBoundary ==
    (pc \in BinnedPcs) =>
        \A i \in 1..input_len :
            IF variant = "mx_c"
            THEN /\ REq(input[i], Rat(1, 1)) => input_int[i] = n_bins - 1
                 /\ (RLeq(Rat(0, 1), input[i]) /\ RLess(input[i], Rat(1, 1))) =>
                        input_int[i] = Floor(RMulInt(input[i], n_bins))
            ELSE RLess(min_val, max_val) =>
                 /\ REq(input[i], max_val) => input_int[i] = n_bins - 1
                 /\ RLess(input[i], max_val) =>
                        input_int[i] = Floor(RMulInt(NormOf(input[i]), n_bins))

C8_Witness ==
    /\ pc = "seed"
    /\ variant = "mx"
    /\ RLess(min_val, max_val)
    /\ ~REq(max_val, Rat(1, 1))
    /\ \E i \in 1..input_len :
          REq(input[i], max_val) /\ input_int[i] = n_bins - 1
    /\ \E i \in 1..input_len :
          RLess(min_val, input[i]) /\ RLess(input[i], max_val)

\* the Binner preconditions: every value in [0, 1] (pre-normalized),
\* max_val > min_val (range-normalized)
BinnerPrecondition ==
    IF variant = "mx_c"
    THEN \A i \in 1..input_len : InUnit(input[i])
    ELSE RLess(min_val, max_val)

\* C9: under the Binner preconditions every binned value is in [0, n_bins),
\* and neither pushHist nor popHist drops an element: the accumulator counts
\* win_len elements after the first window and after every transition.
C9_BinnedInRange ==
    (pc \in BinnedPcs /\ BinnerPrecondition) =>
        /\ AllBinnedInRange
        /\ pc \in {"offsets", "call", "store", "free"} =>
               SumSeq(bufferHist) = win_len

C9_Witness ==
    /\ pc = "free"
    /\ variant = "mx"
    /\ BinnerPrecondition
    /\ \E i \in 1..input_len : RLess(input[i], Rat(0, 1))
    /\ \E i \in 1..input_len : RLess(Rat(1, 1), input[i])
    /\ SumSeq(bufferHist) = win_len

\* C10 (as claimed): in the pre-normalized variant every input value, also
\* one below 0 or above 1, gets a bin index in [0, n_bins).
C10_AlwaysInRange ==
    (variant = "mx_c" /\ pc \in BinnedPcs) => AllBinnedInRange

\* C10 (amended): in the pre-normalized variant a value outside [0, 1] is not
\* rejected, and its index is in [0, n_bins) exactly when
\* 0 <= v < 1 + 1/n_bins; any other value is dropped by pushHist, so the
\* first window counts only the values of that interval.
C10_InRangeIff ==
    (variant = "mx_c") =>
        /\ pc # "rejected"
        /\ pc \in BinnedPcs =>
              \A i \in 1..input_len :
                  input_int[i] \in 0..(n_bins - 1) <=>
                      /\ RLeq(Rat(0, 1), input[i])
                      /\ RLess(input[i], Rat(n_bins + 1, n_bins))
        /\ pc = "offsets" =>
              SumSeq(bufferHist) =
                  Cardinality({i \in 1..win_len :
                                  /\ RLeq(Rat(0, 1), input[i])
                                  /\ RLess(input[i], Rat(n_bins + 1, n_bins))})

C10_Witness ==
    /\ variant = "mx_c"
    /\ pc = "offsets"
    /\ RLess(input[1], Rat(0, 1))
    /\ RLeq(Rat(n_bins + 1, n_bins), input[2])
    /\ input_int[1] < 0
    /\ input_int[2] > n_bins
    /\ SumSeq(bufferHist) = 0

\* the number of occurrences of bin in the index sequence s
Occurrences(s, bin) == Cardinality({i \in 1..Len(s) : s[i] = bin})

\* C11: pushHist over a sequence of indices followed by popHist over the same
\* sequence leaves every bin of the accumulator as it was before the two
\* calls, whatever the accumulator and the indices (in range or not, repeated
\* or not).
C11_RoundTrip ==
    (pc = "acc_popped") => bufferHist = acc0

C11_Witness ==
    /\ pc = "acc_popped"
    /\ bufferHist = acc0
    /\ Len(input_int) = AccLen
    /\ input_int[1] = input_int[2]
    /\ input_int[1] = 0
    /\ input_int[3] = n_bins
    /\ \E b \in 1..n_bins : acc0[b] # 0

InBin(v, b) == RLeq(edges[b + 1], v) /\ RLess(v, edges[b + 2])

\* the edges are n_bins + 1 non-decreasing values lo + (hi - lo) * i / n_bins
EdgesAre(lo, hi) ==
    /\ Len(edges) = n_bins + 1
    /\ \A i \in 1..n_bins : RLeq(edges[i], edges[i + 1])
    /\ \A i \in 0..n_bins :
          REq(edges[i + 1],
              RAdd(lo, RDiv(RMulInt(RSub(hi, lo), i), Rat(n_bins, 1))))

\* every value has bin b exactly when it lies in [edges[b], edges[b+1]), the
\* value edges[n_bins] having bin n_bins - 1
EdgesPartition ==
    \A i \in 1..Len(input_int) : \A b \in 0..(n_bins - 1) :
        (input_int[i] = b) <=>
            \/ InBin(input[i], b)
            \/ b = n_bins - 1 /\ REq(input[i], edges[n_bins + 1])

\* C13 (as claimed): the reported edges are n_bins + 1 non-decreasing values
\* min_val + (max_val - min_val) * i / n_bins (0 and 1 pre-normalized), and a
\* value has bin b exactly when edges[b] <= v < edges[b+1], the value
\* edges[n_bins] having bin n_bins - 1.  Stated for valid configurations and,
\* pre-normalized, for inputs within [0, 1].
C13_EdgesPartition ==
    (/\ pc \in BinnedPcs
     /\ ValidConfig
     /\ variant = "mx_c" => \A i \in 1..input_len : InUnit(input[i])) =>
        /\ IF variant = "mx" THEN EdgesAre(min_val, max_val)
                             ELSE EdgesAre(Rat(0, 1), Rat(1, 1))
        /\ EdgesPartition

\* what does hold: the same wherever the input is not constant
EdgesPartitionUnlessDegenerate ==
    (pc \in BinnedPcs /\ ValidConfig /\ BinnerPrecondition) =>
        /\ IF variant = "mx" THEN EdgesAre(min_val, max_val)
                             ELSE EdgesAre(Rat(0, 1), Rat(1, 1))
        /\ EdgesPartition

\* C17 (as claimed): a call with stride = 0 is rejected before num_windows is
\* computed: it never gets past the argument checks.
C17_ZeroStrideRejected ==
    (stride = 0) => pc \in {"validate", "rejected"}

\* what does hold: with an accepted n_bins, stride = 0 is rejected exactly
\* when win_len = 0
ZeroStrideRejectedIffNoWindow ==
    (stride = 0 /\ n_bins > 2 /\ pc # "validate") =>
        (pc = "rejected" <=> win_len = 0)

\* the set of the elements of a sequence
Range(s) == {s[i] : i \in 1..Len(s)}

\* the positions a transition into window ww has to remove and to add
PopPositions(ww) == ((ww - 1) * stride)..((ww - 1) * stride + stride - 1)

PushPositions(ww) ==
    ((ww - 1) * stride + win_len)..((ww - 1) * stride + win_len + stride - 1)

SlidePositionsExact ==
    /\ Range(popped) = PopPositions(w)
    /\ Len(popped) = stride
    /\ Range(pushed) = PushPositions(w)
    /\ Len(pushed) = stride
    /\ Range(popped) \cap Range(pushed) = {}

\* C14 (as claimed): when the pops and pushes of the transition into window w
\* are done, the positions popped are exactly (w-1)*stride ..
\* (w-1)*stride + stride - 1 and the positions pushed exactly these plus
\* win_len, each once, and the two sets are disjoint.  Stated for the runs
\* that divided by no zero range.
C14_SlidePositions ==
    (pc = "store" /\ ValidConfig /\ ~zerodiv) => SlidePositionsExact

\* what does hold: the same on every run that converted no negative offset,
\* or converted it by wrapping
SlidePositionsUnlessSaturating ==
    (pc = "store" /\ ValidConfig /\ conv # "zero") => SlidePositionsExact

\* C15: for a valid configuration every position computed by the sliding loop
\* is below N, so the guard idx < input_len never skips an element, the first
\* window reads below N, and every column is stored inside the
\* n_bins * num_windows cells of histMat.
C15_PositionsInRange ==
    ValidConfig =>
        /\ ~skipped
        /\ pc # "oob"
        /\ (pc = "pop") => PopIdx(w, j) \in 0..(input_len - 1)
        /\ (pc = "push") => PushIdx(w, j) \in 0..(input_len - 1)
        /\ Range(popped) \cup Range(pushed) \subseteq 0..(input_len - 1)
        /\ (pc = "store") =>
              /\ Len(histMat) = n_bins * num_windows
              /\ w * n_bins + n_bins <= Len(histMat)

C15_Witness ==
    /\ ValidConfig
    /\ pc = "store"
    /\ stride = 2
    /\ conv = "wrap"
    /\ w = num_windows - 1
    /\ input_len - 1 \in Range(pushed)
    /\ Len(popped) = stride

\* the values the position arithmetic goes through, as mathematical integers
InWord(x) == x >= 0 /\ x < SizeMod

ExactPositions(base) ==
    /\ InWord(base)
    /\ InWord(offsets[j + 1])
    /\ InWord(base + ToSize(offsets[j + 1], conv))

\* C16 (as claimed): the position arithmetic never relies on unsigned
\* wraparound: base_pop, base_push, every offset that is converted and every
\* idx are, as mathematical integers, at least 0 and below 2^SizeBits.
\* Stated for the runs that divided by no zero range.
C16_NoWraparound ==
    (ValidConfig /\ ~zerodiv) =>
        /\ (pc = "pop") => ExactPositions(loci[w + 1] - 2)
        /\ (pc = "push") => ExactPositions(loci[w + 1] + win_len - 2)

\* what does hold: no wraparound when stride = 1, where the only offset is 0
NoWraparoundUnitStride ==
    (ValidConfig /\ stride = 1) =>
        /\ (pc = "pop") => ExactPositions(loci[w + 1] - 2)
        /\ (pc = "push") => ExactPositions(loci[w + 1] + win_len - 2)

NonNegativeCounts ==
    /\ \A b \in 1..Len(bufferHist) : bufferHist[b] >= 0
    /\ \A i \in 1..Len(histMat) : histMat[i] >= 0

\* C18 (as claimed): in every state of a valid computation, the states between
\* the pops and the pushes included, every bin of bufferHist is a
\* non-negative integer, and so is every entry of histMat.  Stated for the
\* runs that divided by no zero range.
C18_NonNegative ==
    (ValidConfig /\ ~zerodiv) => NonNegativeCounts

\* what does hold: the same on every run that converted no negative offset,
\* or converted it by wrapping
NonNegativeUnlessSaturating ==
    (ValidConfig /\ conv # "zero") => NonNegativeCounts

\* C19: the columns of histMat are written once each, from left to right:
\* column 0 before the loop, column w at the end of transition w and after
\* the columns 0 .. w-1; a written column keeps what was stored in it; the
\* loop ends after num_windows - 1 transitions with every column written.
C19_ColumnsInOrder ==
    ValidConfig =>
        /\ \A k \in 1..Len(written) :
              /\ written[k].col = k - 1
              /\ Column(k - 1) = written[k].hist
        /\ Len(written) <= num_windows
        /\ (pc \in {"pop", "push", "store"}) => (Len(written) = w /\ w < num_windows)
        /\ (pc \in {"offsets", "call"}) => Len(written) = 1
        /\ (pc \in {"free", "done"}) =>
              /\ Len(written) = num_windows
              /\ w = IF num_windows > 1 THEN num_windows ELSE 1

C19_Witness ==
    /\ ValidConfig
    /\ pc = "done"
    /\ num_windows = 3
    /\ Len(written) = 3
    /\ written[1].hist # written[2].hist
    /\ written[2].hist # written[3].hist

\* the positions of the gateway inside and right after tswHistSlidingWindow
SlidePcs == {"pop", "push", "store", "free"}

\* the input is valid and its range is exactly [0, 1]
UnitRange ==
    /\ ValidConfig
    /\ REq(min_val, Rat(0, 1))
    /\ REq(max_val, Rat(1, 1))

\* C20: called with the same binned sequence, loci, win_len, stride and
\* n_bins, tswHistSlidingWindow of tswHist.h and of tswHist_mx.h hold the same
\* accumulator and the same histMat after every step; and for a valid input
\* with minimum 0 and maximum 1 the gateways tswHist_mx and tswHist_mx_c
\* return the same histMat, loci and edges.
C20_VariantsAgree ==
    /\ (pc \in SlidePcs) => (eng.hist = bufferHist /\ eng.mat = histMat)
    /\ (pc \in SlidePcs \cup {"done"} /\ UnitRange) =>
          /\ twin.ok
          /\ twin.mat = histMat
          /\ twin.loci = loci
          /\ Len(twin.edges) = Len(edges)
          /\ \A i \in 1..Len(edges) : REq(twin.edges[i], edges[i])

C20_Witness ==
    /\ pc = "done"
    /\ UnitRange
    /\ stride = 2
    /\ num_windows = 2
    /\ twin.ok
    /\ twin.mat = histMat
    /\ eng.mat = histMat
    /\ Column(0) # Column(1)
    /\ \E i \in 1..input_len : ~InUnit(input[i]) \/ REq(input[i], Rat(1, 2))

====
